---- MODULE Spec2Model ----
(***************************************************************************)
(* Model of the character domain of Dino-Park: the in-memory repository    *)
(* (InMemoryCharacterRepository), the application service                  *)
(* (CharacterService), the specification classes and a caller that keeps   *)
(* the values the operations return.                                       *)
(*                                                                         *)
(* Character objects live in a heap (reference -> fields) because the      *)
(* repository's Map stores references and the read operations return       *)
(* those same references.                                                  *)
(***************************************************************************)
EXTENDS Integers, Sequences, FiniteSets, TLC

VARIABLES characters, heap, ret, ops, script, tasks, parque, db

vars == <<characters, heap, ret, ops, script, tasks, parque, db>>

(***************************************************************************)
(* Bounds of the model.                                                    *)
(***************************************************************************)
\* number of successful mutations (save, remove, level up) in one behaviour
MaxOps == 2

(***************************************************************************)
(* Strings are sequences of one-character strings, so that toLowerCase     *)
(* and trim are computed and not assumed.                                  *)
(***************************************************************************)
UpperToLower ==
  [c \in {"A", "B", "E", "F", "G", "L", "R", "S", "X"} |->
     CASE c = "A" -> "a" [] c = "B" -> "b" [] c = "E" -> "e" [] c = "F" -> "f"
       [] c = "G" -> "g" [] c = "L" -> "l" [] c = "R" -> "r" [] c = "S" -> "s"
       [] c = "X" -> "x"]

LowerChar(c) == IF c \in DOMAIN UpperToLower THEN UpperToLower[c] ELSE c

toLowerCase(s) == [i \in 1..Len(s) |-> LowerChar(s[i])]

RECURSIVE trimStart(_)
trimStart(s) == IF s # <<>> /\ Head(s) = " " THEN trimStart(Tail(s)) ELSE s

RECURSIVE trimEnd(_)
trimEnd(s) ==
  IF s # <<>> /\ s[Len(s)] = " " THEN trimEnd(SubSeq(s, 1, Len(s) - 1)) ELSE s

trim(s) == trimEnd(trimStart(s))

Aragorn == <<"A", "r", "a", "g", "o", "r", "n">>
Gandalf == <<"G", "a", "n", "d", "a", "l", "f">>
Legolas == <<"L", "e", "g", "o", "l", "a", "s">>
Gimli   == <<"G", "i", "m", "l", "i">>
Frodo   == <<"F", "r", "o", "d", "o">>

(***************************************************************************)
(* Value types (src/entities).                                             *)
(***************************************************************************)
MinNameLength == 2
MinLevel == 1
MaxLevel == 100
ExperiencedFrom == 20
MasterFrom == 90

\* new CharacterName(raw): the trimmed string, or a validation failure
NameIsValid(raw) == Len(trim(raw)) >= MinNameLength
CharacterName(raw) == trim(raw)

\* new CharacterLevel(n)
LevelIsValid(n) == n >= MinLevel /\ n <= MaxLevel

\* new CharacterClass(raw): case-insensitive on input, canonical on output
CanonicalClasses == {"Guerreiro", "Mago", "Arqueiro", "Paladino"}
ClassTable ==
  [raw \in {"Guerreiro", "guerreiro", "GUERREIRO", "Mago", "mago", "MAGO",
            "Arqueiro", "arqueiro", "Paladino", "paladino"} |->
     CASE raw \in {"Guerreiro", "guerreiro", "GUERREIRO"} -> "Guerreiro"
       [] raw \in {"Mago", "mago", "MAGO"} -> "Mago"
       [] raw \in {"Arqueiro", "arqueiro"} -> "Arqueiro"
       [] raw \in {"Paladino", "paladino"} -> "Paladino"]
ClassIsValid(raw) == raw \in DOMAIN ClassTable
CharacterClass(raw) == ClassTable[raw]

\* new Character(name, class, level): primitives are wrapped and validated
CharacterIsValid(rawName, rawClass, level) ==
  NameIsValid(rawName) /\ ClassIsValid(rawClass) /\ LevelIsValid(level)
Character(rawName, rawClass, level) ==
  [name |-> CharacterName(rawName), cls |-> CharacterClass(rawClass),
   level |-> level]

\* character.levelUp(): the success flag and the fields afterwards
levelUpSucceeds(c) == c.level < MaxLevel
levelUp(c) == IF levelUpSucceeds(c) THEN [c EXCEPT !.level = c.level + 1] ELSE c

isMaster(c) == c.level >= MasterFrom
isExperienced(c) == c.level >= ExperiencedFrom /\ c.level < MasterFrom
isGreaterThan(a, b) == a > b

\* CharacterName.equals: case-insensitive
nameEquals(a, b) == toLowerCase(a) = toLowerCase(b)

\* the widest level difference at which two characters can fight
MaxLevelDifference == 20
differenceFrom(a, b) == IF a > b THEN a - b ELSE b - a
canFight(c, d) ==
  /\ ~nameEquals(c.name, d.name)
  /\ ~(differenceFrom(c.level, d.level) > MaxLevelDifference)

(***************************************************************************)
(* The Map #characters: an insertion-ordered sequence of key/reference     *)
(* entries.                                                                *)
(***************************************************************************)
Entry(k, r) == [key |-> k, ref |-> r]

MapHas(m, k) == \E i \in 1..Len(m) : m[i].key = k

MapIndex(m, k) == CHOOSE i \in 1..Len(m) : m[i].key = k

\* variant: a missing key yields the first value instead of null
MapGetOrFirst(m, k) ==
  IF MapHas(m, k) THEN m[MapIndex(m, k)].ref
  ELSE IF m # <<>> THEN m[1].ref ELSE 0

\* Map.get(key) || null ; 0 is null
MapGet(m, k) == IF MapHas(m, k) THEN m[MapIndex(m, k)].ref ELSE 0

\* variant: the entry is always added, as Array.push would
MapSetAppend(m, k, r) == Append(m, Entry(k, r))

\* Map.set(key, value): an existing key keeps its position
\* variant: an existing key is deleted and set again, which moves it last
MapSetMoveToEnd(m, k, r) ==
  LET Other(e) == e.key # k IN Append(SelectSeq(m, Other), Entry(k, r))
MapSet(m, k, r) ==
  IF MapHas(m, k)
  THEN [m EXCEPT ![MapIndex(m, k)] = Entry(k, r)]
  ELSE Append(m, Entry(k, r))

\* Map.delete(key)
MapDelete(m, k) ==
  IF MapHas(m, k)
  THEN LET i == MapIndex(m, k)
       IN SubSeq(m, 1, i - 1) \o SubSeq(m, i + 1, Len(m))
  ELSE m

\* Array.from(map.values())
MapValues(m) == [i \in 1..Len(m) |-> m[i].ref]

\* #createKey(name)
createKey(name) == toLowerCase(name)

(***************************************************************************)
(* Specifications (CharacterSpecification and its subclasses): an          *)
(* expression tree; every node has the same fields.                        *)
(***************************************************************************)
Node(kind, cls, level, pat, kids) ==
  [kind |-> kind, cls |-> cls, level |-> level, pat |-> pat, kids |-> kids]

NoSpec == Node("none", "", 0, <<>>, <<>>)
byClass(cls) == Node("class", cls, 0, <<>>, <<>>)
byMinimumLevel(level) == Node("minLevel", "", level, <<>>, <<>>)
experienced == Node("experienced", "", 0, <<>>, <<>>)
masters == Node("master", "", 0, <<>>, <<>>)
byNamePattern(pat) == Node("namePattern", "", 0, pat, <<>>)
And(l, r) == Node("and", "", 0, <<>>, <<l, r>>)
Or(l, r) == Node("or", "", 0, <<>>, <<l, r>>)
Not(s) == Node("not", "", 0, <<>>, <<s>>)

\* new RegExp(pattern, 'i').test(text) for a pattern of literal characters
RegExpTest(pat, text) ==
  \E i \in 1..(Len(text) - Len(pat) + 1) :
     toLowerCase(SubSeq(text, i, i + Len(pat) - 1)) = toLowerCase(pat)

\* variants of isSatisfiedBy, one per mode: "andAsOr" (AndSpecification
\* joins its operands with ||), "andLeftOnly" (AndSpecification asks its
\* left operand twice), "notOfObject" (NotSpecification negates the specification object, which
\* is never falsy, and not its answer), "minLevelStrict"
\* (MinimumLevelSpecification asks isGreaterThan only)
RECURSIVE isSatisfiedByVariant(_, _, _)
isSatisfiedByVariant(mode, spec, c) ==
  LET left == isSatisfiedByVariant(mode, spec.kids[1], c)
      right == isSatisfiedByVariant(mode, spec.kids[2], c)
  IN CASE spec.kind = "class" -> c.cls = spec.cls
       [] spec.kind = "minLevel" ->
            IF mode = "minLevelStrict" THEN isGreaterThan(c.level, spec.level)
            ELSE isGreaterThan(c.level, spec.level) \/ c.level = spec.level
       [] spec.kind = "experienced" -> isExperienced(c)
       [] spec.kind = "master" -> isMaster(c)
       [] spec.kind = "namePattern" -> RegExpTest(spec.pat, c.name)
       [] spec.kind = "and" ->
            IF mode = "andAsOr" THEN left \/ right
            ELSE IF mode = "andLeftOnly" THEN left
            ELSE left /\ right
       [] spec.kind = "or" -> left \/ right
       [] spec.kind = "not" -> IF mode = "notOfObject" THEN FALSE ELSE ~left

isSatisfiedByAndAsOr(spec, c) == isSatisfiedByVariant("andAsOr", spec, c)
isSatisfiedByAndLeftOnly(spec, c) == isSatisfiedByVariant("andLeftOnly", spec, c)
isSatisfiedByNotOfObject(spec, c) == isSatisfiedByVariant("notOfObject", spec, c)
isSatisfiedByMinLevelStrict(spec, c) ==
  isSatisfiedByVariant("minLevelStrict", spec, c)

RECURSIVE isSatisfiedBy(_, _)
isSatisfiedBy(spec, c) ==
  CASE spec.kind = "class" -> c.cls = spec.cls
    [] spec.kind = "minLevel" ->
         isGreaterThan(c.level, spec.level) \/ c.level = spec.level
    [] spec.kind = "experienced" -> isExperienced(c)
    [] spec.kind = "master" -> isMaster(c)
    [] spec.kind = "namePattern" -> RegExpTest(spec.pat, c.name)
    [] spec.kind = "and" ->
         isSatisfiedBy(spec.kids[1], c) /\ isSatisfiedBy(spec.kids[2], c)
    [] spec.kind = "or" ->
         isSatisfiedBy(spec.kids[1], c) \/ isSatisfiedBy(spec.kids[2], c)
    [] spec.kind = "not" -> ~isSatisfiedBy(spec.kids[1], c)

\* CharacterSpecificationFactory.powerfulWarriors()
powerfulWarriors == And(byClass("Guerreiro"), byMinimumLevel(20))

\* variant: both operands of && and || are asked, whatever the left answers
RECURSIVE evaluatedBoth(_, _)
evaluatedBoth(spec, c) ==
  CASE spec.kind \in {"and", "or"} ->
         evaluatedBoth(spec.kids[1], c) \o evaluatedBoth(spec.kids[2], c)
    [] spec.kind = "not" -> evaluatedBoth(spec.kids[1], c)
    [] OTHER -> <<spec>>

\* the leaf specifications whose isSatisfiedBy runs during
\* spec.isSatisfiedBy(c), in the order they run: && asks its right operand
\* only after a true left one, || only after a false left one
RECURSIVE evaluated(_, _)
evaluated(spec, c) ==
  CASE spec.kind = "and" ->
         IF isSatisfiedBy(spec.kids[1], c)
         THEN evaluated(spec.kids[1], c) \o evaluated(spec.kids[2], c)
         ELSE evaluated(spec.kids[1], c)
    [] spec.kind = "or" ->
         IF isSatisfiedBy(spec.kids[1], c)
         THEN evaluated(spec.kids[1], c)
         ELSE evaluated(spec.kids[1], c) \o evaluated(spec.kids[2], c)
    [] spec.kind = "not" -> evaluated(spec.kids[1], c)
    [] OTHER -> <<spec>>

(***************************************************************************)
(* Inputs of the operations.                                               *)
(***************************************************************************)
Rex == <<"R", "e", "x">>
RexUpper == <<"R", "E", "X">>
aragornLower == <<"a", "r", "a", "g", "o", "r", "n">>
TooShort == <<"X">>

CreateNames == {Rex, RexUpper, aragornLower, TooShort}
LookupNames == CreateNames \cup {Gandalf}
ValidLookupNames == {n \in LookupNames : NameIsValid(n)}
InputClasses == {"mago", "Bardo"}
InputLevels == {99, 101}
RangeLevels == {20, 99}

LeafSpecs ==
  {byClass("Guerreiro"), byMinimumLevel(20), experienced, masters,
   byNamePattern(<<"G">>)}
InputSpecs ==
  LeafSpecs
    \cup {And(byMinimumLevel(20), experienced),
          Or(byClass("Guerreiro"), masters),
          Not(byClass("Guerreiro"))}
ServiceSpecs == {masters, Not(byClass("Guerreiro"))}

(***************************************************************************)
(* What an operation hands back to its caller.                             *)
(***************************************************************************)
\* the value lowestLevel starts from
LowestLevelStart == 100

NoStats ==
  [total |-> 0, byClass |-> [c \in CanonicalClasses |-> 0], novice |-> 0,
   experienced |-> 0, masters |-> 0, averageLevel |-> 0, highestLevel |-> 0,
   lowestLevel |-> LowestLevelStart]

\* a caller that runs a fixed sequence of calls: the calls made so far and
\* the calls still to make; every call moves the script on by one
NoScript == [done |-> <<>>, todo |-> <<>>]

\* service calls that were started and not awaited: none
NoTasks == <<>>

\* new Parque(): no enclosures, no dinosaurs
NoParque == [recintos |-> <<>>, dinossauros |-> <<>>, setsRecinto |-> TRUE]

\* the Recinto and Dinossauro collections of the database: empty
NoDb == [recintos |-> <<>>, dinossauros |-> <<>>, exported |-> TRUE]

\* the character service is used alone: nothing else runs
Alone == tasks = NoTasks /\ parque = NoParque /\ db = NoDb

NoRet ==
  [op |-> "new", name |-> <<>>, cls |-> "", level |-> 0, maxLevel |-> 0,
   spec |-> NoSpec, err |-> "", ref |-> 0, flag |-> FALSE, refs |-> <<>>,
   n |-> 0, stats |-> NoStats, trace |-> <<>>]

SeqRange(s) == {s[i] : i \in 1..Len(s)}

\* the references the caller holds: the value the last operation returned
HeldRefs(r) == (IF r.ref # 0 THEN {r.ref} ELSE {}) \cup SeqRange(r.refs)

\* the characters the caller goes on to use: a returned Character, or the
\* first element of a returned array
UsedRefs(r) ==
  (IF r.ref # 0 THEN {r.ref} ELSE {})
    \cup (IF r.refs # <<>> THEN {r.refs[1]} ELSE {})

\* references that are still reachable; everything else is collected
LiveRefs(m, r) == SeqRange(MapValues(m)) \cup HeldRefs(r)

\* new Character(...) gets a reference no live object has
NewRef(h) == CHOOSE i \in 1..(Cardinality(DOMAIN h) + 1) :
                i \notin DOMAIN h /\ \A j \in 1..(i - 1) : j \in DOMAIN h

Step(m, h, r, cost) ==
  /\ characters' = m
  /\ ret' = r
  /\ heap' = [x \in (DOMAIN h \cap LiveRefs(m, r)) |-> h[x]]
  /\ ops' = ops + cost
  /\ script' = IF script.todo = <<>> THEN script
               ELSE [done |-> Append(script.done, Head(script.todo)),
                     todo |-> Tail(script.todo)]
  /\ UNCHANGED <<tasks, parque, db>>

(***************************************************************************)
(* InMemoryCharacterRepository                                             *)
(***************************************************************************)
defaultCharacters ==
  << Character(Aragorn, "Guerreiro", 10), Character(Gandalf, "Mago", 100),
     Character(Legolas, "Arqueiro", 25), Character(Gimli, "Guerreiro", 20),
     Character(Frodo, "Arqueiro", 5) >>

Init ==
  /\ heap = [i \in 1..Len(defaultCharacters) |-> defaultCharacters[i]]
  /\ characters = [i \in 1..Len(defaultCharacters) |->
                     Entry(toLowerCase(defaultCharacters[i].name), i)]
  /\ ret = NoRet
  /\ ops = 0
  /\ script = NoScript
  /\ Alone

\* the repository methods as functions of the Map
repoFindByName(m, name) == MapGet(m, createKey(name))
repoFindAll(m) == MapValues(m)
repoFindByClass(m, h, cls) ==
  LET Test(r) == h[r].cls = cls IN SelectSeq(MapValues(m), Test)
\* variant: the upper bound is not part of the range
repoFindByLevelRangeExclusive(m, h, lo, hi) ==
  LET Test(r) == isGreaterThan(hi, h[r].level) /\ ~isGreaterThan(lo, h[r].level)
  IN SelectSeq(MapValues(m), Test)
repoFindByLevelRange(m, h, lo, hi) ==
  LET Test(r) == ~isGreaterThan(h[r].level, hi) /\ ~isGreaterThan(lo, h[r].level)
  IN SelectSeq(MapValues(m), Test)
\* variant: the key is the name as written
repoSaveRawKey(m, h, r) == MapSet(m, h[r].name, r)
\* variant: the character is added as a new entry
repoSaveAppend(m, h, r) == Append(m, Entry(createKey(h[r].name), r))
repoSave(m, h, r) == MapSet(m, createKey(h[r].name), r)
\* variant: the key is the name as written
repoRemoveRawKey(m, name) ==
  [map |-> MapDelete(m, name), flag |-> MapHas(m, name)]
\* remove(name): the Map afterwards and what Map.delete returned
repoRemove(m, name) ==
  [map |-> MapDelete(m, createKey(name)), flag |-> MapHas(m, createKey(name))]
\* variant: the key is the name as written
repoExistsRawKey(m, name) == MapHas(m, name)
repoExists(m, name) == MapHas(m, createKey(name))
repoCount(m) == Len(m)
\* variant: the filter is left out
repoFindBySpecificationUnfiltered(m, h, spec) == MapValues(m)
repoFindBySpecification(m, h, spec) ==
  LET Test(r) == isSatisfiedBy(spec, h[r]) IN SelectSeq(MapValues(m), Test)

\* variant: the candidates are not asked canFight
repoFindViableOpponentsUnfiltered(m, h, c) == MapValues(m)
repoFindViableOpponents(m, h, c) ==
  LET Test(r) == canFight(c, h[r]) IN SelectSeq(MapValues(m), Test)

FindByName(name) ==
  Step(characters, heap,
       [NoRet EXCEPT !.op = "findByName", !.name = name,
                     !.ref = repoFindByName(characters, name)], 0)

FindAll ==
  Step(characters, heap,
       [NoRet EXCEPT !.op = "findAll", !.refs = repoFindAll(characters)], 0)

FindByClass(cls) ==
  Step(characters, heap,
       [NoRet EXCEPT !.op = "findByClass", !.cls = cls,
                     !.refs = repoFindByClass(characters, heap, cls)], 0)

\* variant: the range is not validated
FindByLevelRangeUnvalidated(lo, hi) ==
  Step(characters, heap,
       [NoRet EXCEPT !.op = "findByLevelRange", !.level = lo, !.maxLevel = hi,
                     !.refs = repoFindByLevelRange(characters, heap, lo, hi)],
       0)

FindByLevelRange(lo, hi) ==
  IF isGreaterThan(lo, hi)
  THEN Step(characters, heap,
            [NoRet EXCEPT !.op = "findByLevelRange", !.level = lo,
                          !.maxLevel = hi, !.err = "Error"], 0)
  ELSE Step(characters, heap,
            [NoRet EXCEPT !.op = "findByLevelRange", !.level = lo,
                          !.maxLevel = hi,
                          !.refs = repoFindByLevelRange(characters, heap, lo, hi)],
            0)

\* repository.findViableOpponents(character), character held by the caller
RepositoryFindViableOpponents(r) ==
  Step(characters, heap,
       [NoRet EXCEPT !.op = "repository.findViableOpponents", !.ref = r,
                     !.refs = repoFindViableOpponents(characters, heap, heap[r])],
       0)

\* repository.save(new Character(name, class, level))
SaveNew(rawName, rawClass, level) ==
  /\ ops < MaxOps
  /\ CharacterIsValid(rawName, rawClass, level)
  /\ LET r == NewRef(heap)
         h == [x \in DOMAIN heap \cup {r} |->
                 IF x = r THEN Character(rawName, rawClass, level) ELSE heap[x]]
     IN Step(repoSave(characters, h, r), h,
             [NoRet EXCEPT !.op = "save", !.name = h[r].name, !.ref = r], 1)

\* repository.save(c) for a character the caller got from an earlier call
SaveHeld(r) ==
  /\ ops < MaxOps
  /\ r \in UsedRefs(ret)
  /\ Step(repoSave(characters, heap, r), heap,
          [NoRet EXCEPT !.op = "save", !.name = heap[r].name, !.ref = r], 1)

Remove(name) ==
  LET removed == repoRemove(characters, name) IN
  /\ removed.map # characters => ops < MaxOps
  /\ Step(removed.map, heap,
          [NoRet EXCEPT !.op = "remove", !.name = name, !.flag = removed.flag],
          IF removed.map # characters THEN 1 ELSE 0)

Exists(name) ==
  Step(characters, heap,
       [NoRet EXCEPT !.op = "exists", !.name = name,
                     !.flag = repoExists(characters, name)], 0)

Count ==
  Step(characters, heap,
       [NoRet EXCEPT !.op = "count", !.n = repoCount(characters)], 0)

\* variant: the stored collection itself is filtered
FindBySpecificationInPlace(spec) ==
  LET Keep(e) == isSatisfiedBy(spec, heap[e.ref]) IN
  Step(SelectSeq(characters, Keep), heap,
       [NoRet EXCEPT !.op = "findBySpecification", !.spec = spec,
                     !.refs = repoFindBySpecification(characters, heap, spec)],
       0)

FindBySpecification(spec) ==
  Step(characters, heap,
       [NoRet EXCEPT !.op = "findBySpecification", !.spec = spec,
                     !.refs = repoFindBySpecification(characters, heap, spec)],
       0)

(***************************************************************************)
(* CharacterService                                                        *)
(***************************************************************************)
\* variant: a name that is not stored gives null and no error
FindCharacterByNameOrNull(raw) ==
  LET r0 == [NoRet EXCEPT !.op = "findCharacterByName", !.name = raw] IN
  IF ~NameIsValid(raw)
  THEN Step(characters, heap, [r0 EXCEPT !.err = "ValidationError"], 0)
  ELSE Step(characters, heap,
            [r0 EXCEPT !.ref = repoFindByName(characters, CharacterName(raw))],
            0)

FindCharacterByName(raw) ==
  LET r0 == [NoRet EXCEPT !.op = "findCharacterByName", !.name = raw] IN
  IF ~NameIsValid(raw)
  THEN Step(characters, heap, [r0 EXCEPT !.err = "ValidationError"], 0)
  ELSE IF repoFindByName(characters, CharacterName(raw)) = 0
  THEN Step(characters, heap, [r0 EXCEPT !.err = "CharacterNotFound"], 0)
  ELSE Step(characters, heap,
            [r0 EXCEPT !.ref = repoFindByName(characters, CharacterName(raw))],
            0)

\* variant: the class and the level are stored as given, without the
\* checks of the Character constructor
CreateCharacterUnvalidated(raw, rawClass, level) ==
  LET r0 == [NoRet EXCEPT !.op = "createCharacter", !.name = raw,
                          !.cls = rawClass, !.level = level] IN
  IF ~NameIsValid(raw)
  THEN Step(characters, heap, [r0 EXCEPT !.err = "ValidationError"], 0)
  ELSE IF repoExists(characters, CharacterName(raw))
  THEN Step(characters, heap, [r0 EXCEPT !.err = "CharacterAlreadyExists"], 0)
  ELSE /\ ops < MaxOps
       /\ LET r == NewRef(heap)
              h == [x \in DOMAIN heap \cup {r} |->
                      IF x = r
                      THEN [name |-> CharacterName(raw), cls |-> rawClass,
                            level |-> level]
                      ELSE heap[x]]
          IN Step(repoSave(characters, h, r), h, [r0 EXCEPT !.ref = r], 1)

CreateCharacter(raw, rawClass, level) ==
  LET r0 == [NoRet EXCEPT !.op = "createCharacter", !.name = raw,
                          !.cls = rawClass, !.level = level] IN
  IF ~NameIsValid(raw)
  THEN Step(characters, heap, [r0 EXCEPT !.err = "ValidationError"], 0)
  ELSE IF repoExists(characters, CharacterName(raw))
  THEN Step(characters, heap, [r0 EXCEPT !.err = "CharacterAlreadyExists"], 0)
  ELSE IF ~CharacterIsValid(raw, rawClass, level)
  THEN Step(characters, heap, [r0 EXCEPT !.err = "ValidationError"], 0)
  ELSE /\ ops < MaxOps
       /\ LET r == NewRef(heap)
              h == [x \in DOMAIN heap \cup {r} |->
                      IF x = r THEN Character(raw, rawClass, level)
                      ELSE heap[x]]
          IN Step(repoSave(characters, h, r), h, [r0 EXCEPT !.ref = r], 1)

RemoveCharacter(raw) ==
  LET r0 == [NoRet EXCEPT !.op = "removeCharacter", !.name = raw] IN
  IF ~NameIsValid(raw)
  THEN Step(characters, heap, [r0 EXCEPT !.err = "ValidationError"], 0)
  ELSE LET removed == repoRemove(characters, CharacterName(raw)) IN
       /\ removed.map # characters => ops < MaxOps
       /\ Step(removed.map, heap,
               IF ~removed.flag THEN [r0 EXCEPT !.err = "CharacterNotFound"]
               ELSE [r0 EXCEPT !.flag = TRUE],
               IF removed.map # characters THEN 1 ELSE 0)

\* variant: the success flag of levelUp() is not looked at
LevelUpCharacterIgnoringFlag(raw) ==
  LET r0 == [NoRet EXCEPT !.op = "levelUpCharacter", !.name = raw] IN
  IF ~NameIsValid(raw)
  THEN Step(characters, heap, [r0 EXCEPT !.err = "ValidationError"], 0)
  ELSE LET r == repoFindByName(characters, CharacterName(raw)) IN
       IF r = 0
       THEN Step(characters, heap, [r0 EXCEPT !.err = "CharacterNotFound"], 0)
       ELSE /\ levelUpSucceeds(heap[r]) => ops < MaxOps
            /\ LET h == [heap EXCEPT ![r] = levelUp(heap[r])]
               IN Step(repoSave(characters, h, r), h, [r0 EXCEPT !.ref = r],
                       IF levelUpSucceeds(heap[r]) THEN 1 ELSE 0)

LevelUpCharacter(raw) ==
  LET r0 == [NoRet EXCEPT !.op = "levelUpCharacter", !.name = raw] IN
  IF ~NameIsValid(raw)
  THEN Step(characters, heap, [r0 EXCEPT !.err = "ValidationError"], 0)
  ELSE LET r == repoFindByName(characters, CharacterName(raw)) IN
       IF r = 0
       THEN Step(characters, heap, [r0 EXCEPT !.err = "CharacterNotFound"], 0)
       ELSE IF ~levelUpSucceeds(heap[r])
       THEN Step(characters, [heap EXCEPT ![r] = levelUp(heap[r])],
                 [r0 EXCEPT !.err = "InvalidOperation"], 0)
       ELSE /\ ops < MaxOps
            /\ LET h == [heap EXCEPT ![r] = levelUp(heap[r])]
               IN Step(repoSave(characters, h, r), h, [r0 EXCEPT !.ref = r], 1)

FindCharactersBySpecification(spec) ==
  Step(characters, heap,
       [NoRet EXCEPT !.op = "findCharactersBySpecification", !.spec = spec,
                     !.refs = repoFindBySpecification(characters, heap, spec)],
       0)

FindCharactersByLevelRange(lo, hi) ==
  LET r0 == [NoRet EXCEPT !.op = "findCharactersByLevelRange", !.level = lo,
                          !.maxLevel = hi] IN
  IF ~LevelIsValid(lo) \/ ~LevelIsValid(hi)
  THEN Step(characters, heap, [r0 EXCEPT !.err = "ValidationError"], 0)
  ELSE IF isGreaterThan(lo, hi)
  THEN Step(characters, heap, [r0 EXCEPT !.err = "Error"], 0)
  ELSE Step(characters, heap,
            [r0 EXCEPT !.refs = repoFindByLevelRange(characters, heap, lo, hi)],
            0)

FindViableOpponents(raw) ==
  LET r0 == [NoRet EXCEPT !.op = "findViableOpponents", !.name = raw] IN
  IF ~NameIsValid(raw)
  THEN Step(characters, heap, [r0 EXCEPT !.err = "ValidationError"], 0)
  ELSE LET r == repoFindByName(characters, CharacterName(raw)) IN
       IF r = 0
       THEN Step(characters, heap, [r0 EXCEPT !.err = "CharacterNotFound"], 0)
       ELSE Step(characters, heap,
                 [r0 EXCEPT !.refs =
                    repoFindViableOpponents(characters, heap, heap[r])], 0)

FindExperiencedCharacters ==
  Step(characters, heap,
       [NoRet EXCEPT !.op = "findExperiencedCharacters",
                     !.refs = repoFindBySpecification(characters, heap,
                                                      experienced)], 0)

FindMasterCharacters ==
  Step(characters, heap,
       [NoRet EXCEPT !.op = "findMasterCharacters",
                     !.refs = repoFindBySpecification(characters, heap, masters)],
       0)

\* the repository methods a finished service operation has called, in order
repositoryCalls(r) ==
  CASE r.op = "findCharacterByName" ->
         IF ~NameIsValid(r.name) THEN <<>> ELSE <<"findByName">>
    [] r.op = "createCharacter" ->
         IF ~NameIsValid(r.name) THEN <<>>
         ELSE IF r.err # "" THEN <<"exists">> ELSE <<"exists", "save">>
    [] r.op = "removeCharacter" ->
         IF ~NameIsValid(r.name) THEN <<>> ELSE <<"remove">>
    [] r.op = "levelUpCharacter" ->
         IF ~NameIsValid(r.name) THEN <<>>
         ELSE IF r.err # "" THEN <<"findByName">> ELSE <<"findByName", "save">>
    [] r.op = "findCharactersBySpecification" -> <<"findBySpecification">>
    [] r.op = "getCharacterStatistics" -> <<"findAll">>
    [] OTHER -> <<>>

RECURSIVE SumLevels(_, _)
SumLevels(h, refs) ==
  IF refs = <<>> THEN 0 ELSE h[Head(refs)].level + SumLevels(h, Tail(refs))

\* variant: highestLevel is assigned the level without Math.max, so the
\* last character's level stays
HighestLevelOfLast(h, refs, acc) ==
  IF refs = <<>> THEN acc ELSE h[refs[Len(refs)]].level

RECURSIVE HighestLevel(_, _, _)
HighestLevel(h, refs, acc) ==
  IF refs = <<>> THEN acc
  ELSE HighestLevel(h, Tail(refs),
                    IF h[Head(refs)].level > acc THEN h[Head(refs)].level ELSE acc)

RECURSIVE LowestLevel(_, _, _)
LowestLevel(h, refs, acc) ==
  IF refs = <<>> THEN acc
  ELSE LowestLevel(h, Tail(refs),
                   IF h[Head(refs)].level < acc THEN h[Head(refs)].level ELSE acc)

\* variant: the division is made for no characters too; 0 / 0 is NaN,
\* written -1 here
AverageLevelUnguarded(h, refs) ==
  IF Len(refs) > 0
  THEN (SumLevels(h, refs) * 200 + Len(refs)) \div (2 * Len(refs))
  ELSE -1
\* (totalLevel / length).toFixed(2), in hundredths; 0 for no characters
AverageLevel(h, refs) ==
  IF Len(refs) > 0
  THEN (SumLevels(h, refs) * 200 + Len(refs)) \div (2 * Len(refs))
  ELSE 0

\* variant: the experienced test is not in the else branch of the master
\* test, so a master is counted as a novice as well
statisticsWithoutElse(m, h) ==
  LET all == repoFindAll(m)
      OfClass(c) == LET Test(r) == h[r].cls = c IN Len(SelectSeq(all, Test))
      Masters(r) == isMaster(h[r])
      Experienced(r) == isExperienced(h[r])
      Novice(r) == ~isExperienced(h[r])
  IN [total |-> Len(all),
      byClass |-> [c \in CanonicalClasses |-> OfClass(c)],
      novice |-> Len(SelectSeq(all, Novice)),
      experienced |-> Len(SelectSeq(all, Experienced)),
      masters |-> Len(SelectSeq(all, Masters)),
      averageLevel |-> AverageLevel(h, all),
      highestLevel |-> HighestLevel(h, all, 0),
      lowestLevel |-> LowestLevel(h, all, LowestLevelStart)]

statistics(m, h) ==
  LET all == repoFindAll(m)
      OfClass(c) == LET Test(r) == h[r].cls = c IN Len(SelectSeq(all, Test))
      Masters(r) == isMaster(h[r])
      Experienced(r) == ~isMaster(h[r]) /\ isExperienced(h[r])
      Novice(r) == ~isMaster(h[r]) /\ ~isExperienced(h[r])
  IN [total |-> Len(all),
      byClass |-> [c \in CanonicalClasses |-> OfClass(c)],
      novice |-> Len(SelectSeq(all, Novice)),
      experienced |-> Len(SelectSeq(all, Experienced)),
      masters |-> Len(SelectSeq(all, Masters)),
      averageLevel |-> AverageLevel(h, all),
      highestLevel |-> HighestLevel(h, all, 0),
      lowestLevel |-> LowestLevel(h, all, LowestLevelStart)]

GetCharacterStatistics ==
  Step(characters, heap,
       [NoRet EXCEPT !.op = "getCharacterStatistics",
                     !.stats = statistics(characters, heap)], 0)

(***************************************************************************)
(* The caller: it keeps what the last call returned and may use it.        *)
(***************************************************************************)
CallerOps == {"caller.levelUp", "caller.pop"}

\* character.levelUp() on a returned Character, without save
CallerLevelUp(r) ==
  /\ r \in UsedRefs(ret)
  /\ ret.op \notin CallerOps
  /\ levelUpSucceeds(heap[r]) => ops < MaxOps
  /\ Step(characters, [heap EXCEPT ![r] = levelUp(heap[r])],
          [ret EXCEPT !.op = "caller.levelUp", !.flag = levelUpSucceeds(heap[r])],
          IF levelUpSucceeds(heap[r]) THEN 1 ELSE 0)

\* array.pop() on a returned array
CallerPop ==
  /\ ret.refs # <<>>
  /\ ret.op \notin CallerOps
  /\ Step(characters, heap,
          [ret EXCEPT !.op = "caller.pop",
                      !.refs = SubSeq(ret.refs, 1, Len(ret.refs) - 1)], 0)

Next ==
  \/ \E n \in ValidLookupNames : FindByName(CharacterName(n))
  \/ FindAll
  \/ \E c \in {"Guerreiro", "Mago"} : FindByClass(c)
  \/ \E lo \in RangeLevels, hi \in RangeLevels : FindByLevelRange(lo, hi)
  \/ \E n \in CreateNames, c \in InputClasses, l \in InputLevels : SaveNew(n, c, l)
  \/ \E r \in UsedRefs(ret) : SaveHeld(r)
  \/ \E n \in ValidLookupNames : Remove(CharacterName(n))
  \/ \E n \in ValidLookupNames : Exists(CharacterName(n))
  \/ Count
  \/ \E s \in InputSpecs : FindBySpecification(s)
  \/ \E n \in LookupNames : FindCharacterByName(n)
  \/ \E n \in CreateNames, c \in InputClasses, l \in InputLevels :
        CreateCharacter(n, c, l)
  \/ \E n \in LookupNames : RemoveCharacter(n)
  \/ \E n \in LookupNames : LevelUpCharacter(n)
  \/ \E s \in ServiceSpecs : FindCharactersBySpecification(s)
  \/ GetCharacterStatistics
  \/ \E r \in UsedRefs(ret) : CallerLevelUp(r)
  \/ CallerPop

Spec == Init /\ [][Next]_vars

TypeOK ==
  /\ ops \in 0..MaxOps
  /\ \A i \in 1..Len(characters) : characters[i].ref \in DOMAIN heap
  /\ \A r \in DOMAIN heap : LevelIsValid(heap[r].level)

(***************************************************************************)
(* The specification classes on their own: one character, and a caller     *)
(* that asks composed specifications about it.                             *)
(***************************************************************************)
AlgebraLevels == {MinLevel, ExperiencedFrom - 1, ExperiencedFrom,
                  MasterFrom - 1, MasterFrom, MaxLevel}
AlgebraCharacters ==
  {Character(n, c, l) : n \in {Gimli, Rex}, c \in {"Guerreiro", "Mago"},
                        l \in AlgebraLevels}

\* the operands of associativity
TripleSpecs == {byClass("Guerreiro"), experienced, byNamePattern(<<"G">>)}

AlgebraSpecs ==
  LeafSpecs
    \cup {And(a, b) : a \in LeafSpecs, b \in LeafSpecs}
    \cup {Or(a, b) : a \in LeafSpecs, b \in LeafSpecs}
    \cup {Not(a) : a \in LeafSpecs}
    \cup {Not(Not(a)) : a \in LeafSpecs}
    \cup {byMinimumLevel(l) : l \in AlgebraLevels}
    \cup {powerfulWarriors}
    \cup {And(And(a, b), c) : a \in TripleSpecs, b \in TripleSpecs, c \in TripleSpecs}
    \cup {And(a, And(b, c)) : a \in TripleSpecs, b \in TripleSpecs, c \in TripleSpecs}
    \cup {Or(Or(a, b), c) : a \in TripleSpecs, b \in TripleSpecs, c \in TripleSpecs}
    \cup {Or(a, Or(b, c)) : a \in TripleSpecs, b \in TripleSpecs, c \in TripleSpecs}

\* a repository that holds one character
InitAlgebra ==
  /\ \E x \in AlgebraCharacters :
        /\ heap = [i \in {1} |-> x]
        /\ characters = <<Entry(createKey(x.name), 1)>>
  /\ ret = NoRet
  /\ ops = 0
  /\ script = NoScript
  /\ Alone

\* specification.isSatisfiedBy(character)
IsSatisfiedBy(spec, r) ==
  Step(characters, heap,
       [NoRet EXCEPT !.op = "isSatisfiedBy", !.spec = spec, !.ref = r,
                     !.flag = isSatisfiedBy(spec, heap[r]),
                     !.trace = evaluated(spec, heap[r])], 0)

NextAlgebra ==
  \E s \in AlgebraSpecs, r \in DOMAIN heap : IsSatisfiedBy(s, r)

SpecAlgebra == InitAlgebra /\ [][NextAlgebra]_vars

(***************************************************************************)
(* The queries on their own: a repository with any few characters in it    *)
(* (reached by removing the five defaults and creating others) and the     *)
(* read operations.                                                        *)
(***************************************************************************)
\* number of characters in the repository
MaxStored == 2

QueryNames == {Gimli, Rex, Frodo}
QueryLookups == QueryNames \cup {TooShort}
QueryLevels == {ExperiencedFrom - 1, ExperiencedFrom, 2 * ExperiencedFrom,
                MasterFrom - 1, MasterFrom}
QueryCharacters ==
  {Character(n, c, l) : n \in QueryNames, c \in {"Guerreiro", "Mago"},
                        l \in QueryLevels}
\* the level ranges asked for: in order, one level, out of order, not a level
QueryRanges == {<<10, 30>>, <<20, 20>>, <<20, 89>>, <<30, 10>>, <<0, 30>>}

InitQuery ==
  /\ \E n \in 0..MaxStored : \E cs \in [1..n -> QueryCharacters] :
        /\ \A i, j \in 1..n : i # j => ~nameEquals(cs[i].name, cs[j].name)
        /\ heap = cs
        /\ characters = [i \in 1..n |-> Entry(createKey(cs[i].name), i)]
  /\ ret = NoRet
  /\ ops = 0
  /\ script = NoScript
  /\ Alone

NextQuery ==
  \/ \E p \in QueryRanges :
        LevelIsValid(p[1]) /\ LevelIsValid(p[2]) /\ FindByLevelRange(p[1], p[2])
  \/ \E p \in QueryRanges : FindCharactersByLevelRange(p[1], p[2])
  \/ \E n \in QueryLookups : FindViableOpponents(n)
  \/ \E r \in UsedRefs(ret) : RepositoryFindViableOpponents(r)
  \/ FindExperiencedCharacters
  \/ FindMasterCharacters
  \/ GetCharacterStatistics

SpecQuery == InitQuery /\ [][NextQuery]_vars

(***************************************************************************)
(* A caller that runs a script on a new repository: two createCharacter    *)
(* calls and a findBySpecification.                                        *)
(***************************************************************************)
Call(op, name, cls, level, spec) ==
  [op |-> op, name |-> name, cls |-> cls, level |-> level, spec |-> spec]
create(name, cls, level) == Call("createCharacter", name, cls, level, NoSpec)
find(spec) == Call("findBySpecification", <<>>, "", 0, spec)

NameA == <<"A">>
NameB == <<"B">>
NameAl == <<"A", "l">>
NameBo == <<"B", "o">>
ScriptLevels == {50, 80}
ScriptSpecs == {And(byMinimumLevel(60), experienced), byMinimumLevel(60)}

Scripts ==
  {<<create(n1, c1, l1), create(n2, "Mago", l2), find(s)>> :
     n1 \in {NameA, NameAl}, c1 \in {"Guerreiro", "Mago"}, l1 \in ScriptLevels,
     n2 \in {NameB, NameBo}, l2 \in ScriptLevels, s \in ScriptSpecs}

InitScript ==
  /\ heap = [i \in 1..Len(defaultCharacters) |-> defaultCharacters[i]]
  /\ characters = [i \in 1..Len(defaultCharacters) |->
                     Entry(toLowerCase(defaultCharacters[i].name), i)]
  /\ ret = NoRet
  /\ ops = 0
  /\ \E todo \in Scripts : script = [done |-> <<>>, todo |-> todo]
  /\ Alone

NextScript ==
  /\ script.todo # <<>>
  /\ LET call == Head(script.todo)
     IN \/ /\ call.op = "createCharacter"
           /\ CreateCharacter(call.name, call.cls, call.level)
        \/ /\ call.op = "findBySpecification"
           /\ FindBySpecification(call.spec)

SpecScript == InitScript /\ [][NextScript]_vars

(***************************************************************************)
(* Service calls that are started without waiting for one another.  An     *)
(* async method runs up to its next await in one piece; a repository       *)
(* method has no await of its own, so it reads or writes the Map at the    *)
(* moment it is called and the caller goes on after the await.             *)
(***************************************************************************)
Task(op, name, cls, level) ==
  [op |-> op, name |-> name, cls |-> cls, level |-> level, pc |-> "start",
   ref |-> 0, flag |-> FALSE, err |-> ""]

NameBoUpper == <<"B", "O">>

createBo == Task("createCharacter", NameBo, "Mago", 5)
createBoUpper == Task("createCharacter", NameBoUpper, "Guerreiro", 7)
createRex == Task("createCharacter", Rex, "Arqueiro", 1)
levelUpRex == Task("levelUpCharacter", Rex, "", 0)
levelUpGimli == Task("levelUpCharacter", Gimli, "", 0)
removeRex == Task("removeCharacter", Rex, "", 0)

TaskKinds ==
  {createBo, createBoUpper, createRex, levelUpRex, levelUpGimli, removeRex}

\* the calls of one run: any two, or one of a few sets of three
Runs ==
  {<<a, b>> : a \in TaskKinds, b \in TaskKinds}
    \cup {<<levelUpRex, removeRex, createRex>>,
          <<levelUpRex, levelUpRex, levelUpRex>>,
          <<levelUpGimli, levelUpGimli, levelUpGimli>>,
          <<createBo, createBoUpper, removeRex>>}

\* the repository before the calls: Rex one level and Gimli two levels
\* below the highest level
asyncCharacters ==
  <<Character(Rex, "Mago", MaxLevel - 1),
    Character(Gimli, "Guerreiro", MaxLevel - 2)>>

InitAsync ==
  /\ heap = asyncCharacters
  /\ characters = [i \in 1..Len(asyncCharacters) |->
                     Entry(createKey(asyncCharacters[i].name), i)]
  /\ ret = NoRet
  /\ ops = 0
  /\ script = NoScript
  /\ tasks \in Runs
  /\ parque = NoParque
  /\ db = NoDb

\* one piece of task i ran: the Map, the objects and the task afterwards
AsyncStep(m, h, i, t) ==
  /\ characters' = m
  /\ heap' = h
  /\ tasks' = [tasks EXCEPT ![i] = t]
  /\ UNCHANGED <<ret, ops, script, parque, db>>

Failed(t, err) == [t EXCEPT !.pc = "done", !.err = err, !.ref = 0]

\* createCharacter up to `await this.#repository.exists(characterName)`
CreateCharacterStart(i) ==
  LET t == tasks[i] IN
  /\ t.op = "createCharacter" /\ t.pc = "start"
  /\ IF ~NameIsValid(t.name)
     THEN AsyncStep(characters, heap, i, Failed(t, "ValidationError"))
     ELSE AsyncStep(characters, heap, i,
                    [t EXCEPT !.pc = "afterExists",
                              !.flag = repoExists(characters,
                                                  CharacterName(t.name))])

\* from the answer of exists to `await this.#repository.save(character)`
CreateCharacterAfterExists(i) ==
  LET t == tasks[i] IN
  /\ t.op = "createCharacter" /\ t.pc = "afterExists"
  /\ IF t.flag
     THEN AsyncStep(characters, heap, i, Failed(t, "CharacterAlreadyExists"))
     ELSE IF ~CharacterIsValid(t.name, t.cls, t.level)
     THEN AsyncStep(characters, heap, i, Failed(t, "ValidationError"))
     ELSE LET r == NewRef(heap)
              h == [x \in DOMAIN heap \cup {r} |->
                      IF x = r THEN Character(t.name, t.cls, t.level)
                      ELSE heap[x]]
          IN AsyncStep(repoSave(characters, h, r), h, i,
                       [t EXCEPT !.pc = "afterSave", !.ref = r])

\* return savedCharacter
CreateCharacterAfterSave(i) ==
  LET t == tasks[i] IN
  /\ t.op = "createCharacter" /\ t.pc = "afterSave"
  /\ AsyncStep(characters, heap, i, [t EXCEPT !.pc = "done"])

\* levelUpCharacter up to the await in findCharacterByName: findByName
\* has read the Map
LevelUpCharacterStart(i) ==
  LET t == tasks[i] IN
  /\ t.op = "levelUpCharacter" /\ t.pc = "start"
  /\ IF ~NameIsValid(t.name)
     THEN AsyncStep(characters, heap, i, Failed(t, "ValidationError"))
     ELSE AsyncStep(characters, heap, i,
                    [t EXCEPT !.pc = "inFind",
                              !.ref = repoFindByName(characters,
                                                     CharacterName(t.name))])

\* findCharacterByName after its await: throw, or return the character to
\* the await in levelUpCharacter
LevelUpCharacterInFind(i) ==
  LET t == tasks[i] IN
  /\ t.op = "levelUpCharacter" /\ t.pc = "inFind"
  /\ IF t.ref = 0
     THEN AsyncStep(characters, heap, i, Failed(t, "CharacterNotFound"))
     ELSE AsyncStep(characters, heap, i, [t EXCEPT !.pc = "afterFind"])

\* variant: the success flag of levelUp() is not looked at
LevelUpCharacterAfterFindIgnoringFlag(i) ==
  LET t == tasks[i]
      h == [heap EXCEPT ![t.ref] = levelUp(heap[t.ref])]
  IN /\ t.op = "levelUpCharacter" /\ t.pc = "afterFind"
     /\ AsyncStep(repoSave(characters, h, t.ref), h, i,
                  [t EXCEPT !.pc = "afterSave"])

\* character.levelUp() and on to `await this.#repository.save(character)`
LevelUpCharacterAfterFind(i) ==
  LET t == tasks[i]
      h == [heap EXCEPT ![t.ref] = levelUp(heap[t.ref])]
  IN /\ t.op = "levelUpCharacter" /\ t.pc = "afterFind"
     /\ IF ~levelUpSucceeds(heap[t.ref])
        THEN AsyncStep(characters, h, i, Failed(t, "InvalidOperation"))
        ELSE AsyncStep(repoSave(characters, h, t.ref), h, i,
                       [t EXCEPT !.pc = "afterSave"])

\* return updatedCharacter
LevelUpCharacterAfterSave(i) ==
  LET t == tasks[i] IN
  /\ t.op = "levelUpCharacter" /\ t.pc = "afterSave"
  /\ AsyncStep(characters, heap, i, [t EXCEPT !.pc = "done"])

\* removeCharacter up to `await this.#repository.remove(characterName)`
RemoveCharacterStart(i) ==
  LET t == tasks[i] IN
  /\ t.op = "removeCharacter" /\ t.pc = "start"
  /\ IF ~NameIsValid(t.name)
     THEN AsyncStep(characters, heap, i, Failed(t, "ValidationError"))
     ELSE LET removed == repoRemove(characters, CharacterName(t.name))
          IN AsyncStep(removed.map, heap, i,
                       [t EXCEPT !.pc = "afterRemove", !.flag = removed.flag])

\* throw characterNotFound, or return true
RemoveCharacterAfterRemove(i) ==
  LET t == tasks[i] IN
  /\ t.op = "removeCharacter" /\ t.pc = "afterRemove"
  /\ IF ~t.flag
     THEN AsyncStep(characters, heap, i, Failed(t, "CharacterNotFound"))
     ELSE AsyncStep(characters, heap, i, [t EXCEPT !.pc = "done"])

NextAsync ==
  \/ \E i \in DOMAIN tasks : CreateCharacterStart(i)
  \/ \E i \in DOMAIN tasks : CreateCharacterAfterExists(i)
  \/ \E i \in DOMAIN tasks : CreateCharacterAfterSave(i)
  \/ \E i \in DOMAIN tasks : LevelUpCharacterStart(i)
  \/ \E i \in DOMAIN tasks : LevelUpCharacterInFind(i)
  \/ \E i \in DOMAIN tasks : LevelUpCharacterAfterFind(i)
  \/ \E i \in DOMAIN tasks : LevelUpCharacterAfterSave(i)
  \/ \E i \in DOMAIN tasks : RemoveCharacterStart(i)
  \/ \E i \in DOMAIN tasks : RemoveCharacterAfterRemove(i)

SpecAsync == InitAsync /\ [][NextAsync]_vars

(***************************************************************************)
(* Parque: enclosures and dinosaurs held in two arrays.  A dinosaur and a  *)
(* enclosure are referred to by their position in the arrays.  The classes *)
(* Recinto and Dinossauro are not among the sources: an enclosure keeps    *)
(* the list of the dinosaurs added to it, and adicionarDinossauro may or   *)
(* may not record the enclosure on the dinosaur (parque.setsRecinto).      *)
(***************************************************************************)
MaxRecintos == 2
MaxDinossauros == 2
MaxParqueOps == 3

RecintoIds == {1, 2}
RecintoIdsAsked == {1, 2, 3}
Capacidades == {2}
DinoNomes == {"Rex", "Blue"}
DinoNomesAsked == {"Rex", "Blue", "Ghost"}

NewParque(b) == [recintos |-> <<>>, dinossauros |-> <<>>, setsRecinto |-> b]

Recinto(id, capacidade) ==
  [id |-> id, capacidade |-> capacidade, dinossauros |-> <<>>]

Dinossauro(nome) == [nome |-> nome, recinto |-> 0]

\* this.dinossauros.find((d) => d.nome === nome): the first one, 0 if none
findDinossauro(p, nome) ==
  LET hits == {i \in DOMAIN p.dinossauros : p.dinossauros[i].nome = nome}
  IN IF hits = {} THEN 0 ELSE CHOOSE i \in hits : \A j \in hits : i <= j

\* this.recintos.find((r) => r.id === id): the first one, 0 if none
findRecinto(p, id) ==
  LET hits == {i \in DOMAIN p.recintos : p.recintos[i].id = id}
  IN IF hits = {} THEN 0 ELSE CHOOSE i \in hits : \A j \in hits : i <= j

\* recinto.adicionarDinossauro(dino)
adicionarDinossauro(p, r, d) ==
  [p EXCEPT !.recintos[r].dinossauros = Append(@, d),
            !.dinossauros[d].recinto = IF p.setsRecinto THEN r ELSE @]

\* recinto.listarDinossauros(): the dinosaurs the enclosure lists
listarDinossauros(p, r) == SeqRange(p.recintos[r].dinossauros)

ParqueRet(op, nome, id, err) ==
  [op |-> op, nome |-> nome, id |-> id, err |-> err, before |-> parque]

InitParque ==
  /\ characters = <<>>
  /\ heap = <<>>
  /\ ret = [op |-> "new", nome |-> "", id |-> 0, err |-> "",
            before |-> NewParque(TRUE)]
  /\ ops = 0
  /\ script = NoScript
  /\ tasks = NoTasks
  /\ parque \in {NewParque(b) : b \in BOOLEAN}
  /\ db = NoDb

ParqueStep(p, r, n) ==
  /\ parque' = p
  /\ ret' = r
  /\ ops' = ops + n
  /\ UNCHANGED <<characters, heap, script, tasks, db>>

criarRecinto(id, capacidade) ==
  /\ Len(parque.recintos) < MaxRecintos
  /\ ParqueStep([parque EXCEPT !.recintos = Append(@, Recinto(id, capacidade))],
                ParqueRet("criarRecinto", "", id, ""), 0)

criarDinossauro(nome) ==
  /\ Len(parque.dinossauros) < MaxDinossauros
  /\ ParqueStep([parque EXCEPT !.dinossauros = Append(@, Dinossauro(nome))],
                ParqueRet("criarDinossauro", nome, 0, ""), 0)

inserirDinossauroNoRecinto(nomeDinossauro, idRecinto) ==
  LET dino == findDinossauro(parque, nomeDinossauro)
      recinto == findRecinto(parque, idRecinto)
      Returns(p, err) ==
        ParqueStep(p, ParqueRet("inserirDinossauroNoRecinto", nomeDinossauro,
                                idRecinto, err), 1)
  IN /\ ops < MaxParqueOps
     /\ IF dino = 0 \/ recinto = 0
        THEN Returns(parque, "Error")
        ELSE Returns(adicionarDinossauro(parque, recinto, dino), "")

\* `if (!dino.recinto) { dino.recinto.removerDinossauro(...) }`: the branch
\* is taken when dino.recinto is undefined, and the call on it is a TypeError
transferirDinossauro(nomeDinossauro, idRecintoDestino) ==
  LET dino == findDinossauro(parque, nomeDinossauro)
      recintoDestino == findRecinto(parque, idRecintoDestino)
      Returns(p, err) ==
        ParqueStep(p, ParqueRet("transferirDinossauro", nomeDinossauro,
                                idRecintoDestino, err), 1)
  IN /\ ops < MaxParqueOps
     /\ IF dino = 0 \/ recintoDestino = 0
        THEN Returns(parque, "Error")
        ELSE IF parque.dinossauros[dino].recinto = 0
        THEN Returns(parque, "TypeError")
        ELSE Returns(adicionarDinossauro(parque, recintoDestino, dino), "")

NextParque ==
  \/ \E id \in RecintoIds, capacidade \in Capacidades :
       criarRecinto(id, capacidade)
  \/ \E nome \in DinoNomes : criarDinossauro(nome)
  \/ \E nome \in DinoNomesAsked, id \in RecintoIdsAsked :
       inserirDinossauroNoRecinto(nome, id)
  \/ \E nome \in DinoNomesAsked, id \in RecintoIdsAsked :
       transferirDinossauro(nome, id)

SpecParque == InitParque /\ [][NextParque]_vars

(***************************************************************************)
(* inserirDinossauroNoRecinto on the database: three awaited database      *)
(* operations (findById, countDocuments, create).  Each operation reads or *)
(* writes its collection at one moment and the call goes on after the      *)
(* await, so calls started together interleave between the operations.     *)
(* db.exported tells whether the import of models/Recinto.js yields the    *)
(* Mongoose model: `module; exports = mongoose.model(...)` assigns the     *)
(* local `exports`, which leaves module.exports empty.                     *)
(***************************************************************************)
MinCapacidade == 1
MaxCapacidade == 2
MaxCalls == 3

NewDb(rs, b) == [recintos |-> rs, dinossauros |-> <<>>, exported |-> b]

RecintoDoc(id, capacidade) == [id |-> id, capacidade |-> capacidade]

DinossauroDoc(nome, recintoId) == [nome |-> nome, recintoId |-> recintoId]

\* Recinto.findById(recintoId): the document, 0 for null
findById(d, recintoId) ==
  LET hits == {i \in DOMAIN d.recintos : d.recintos[i].id = recintoId}
  IN IF hits = {} THEN 0 ELSE CHOOSE i \in hits : TRUE

\* Dinossauro.countDocuments({ recintoId })
countDocuments(d, recintoId) ==
  Cardinality({i \in DOMAIN d.dinossauros :
                 d.dinossauros[i].recintoId = recintoId})

\* one call inserirDinossauroNoRecinto(dinoData, recintoId); full records
\* whether the enclosure was full when the call was made
InsertCall(nome, recintoId) ==
  [op |-> "inserirDinossauroNoRecinto", nome |-> nome,
   recintoId |-> recintoId, pc |-> "start", recinto |-> 0,
   totalRecinto |-> 0, novoDino |-> 0, full |-> FALSE, err |-> ""]

InsertKinds ==
  {InsertCall("Rex", 1), InsertCall("Blue", 1), InsertCall("Blue", 2),
   InsertCall("Rex", 3)}

InsertRuns ==
  UNION {[1..n -> InsertKinds] : n \in 2..MaxCalls}

InitRecinto ==
  /\ characters = <<>>
  /\ heap = <<>>
  /\ ret = NoRet
  /\ ops = 0
  /\ script = NoScript
  /\ tasks \in InsertRuns
  /\ parque = NoParque
  /\ db \in {NewDb(<<RecintoDoc(1, c1), RecintoDoc(2, c2)>>, b) :
               c1 \in MinCapacidade..MaxCapacidade,
               c2 \in MinCapacidade..MaxCapacidade, b \in BOOLEAN}

DbStep(d, i, t) ==
  /\ db' = d
  /\ tasks' = [tasks EXCEPT ![i] = t]
  /\ UNCHANGED <<characters, heap, ret, ops, script, parque>>

Thrown(t, err) == [t EXCEPT !.pc = "done", !.err = err]

\* the call, up to `await Recinto.findById(recintoId)`
InserirDinossauroNoRecintoStart(i) ==
  LET t == tasks[i]
      recinto == findById(db, t.recintoId)
      isFull == /\ recinto # 0
                /\ countDocuments(db, t.recintoId)
                     >= db.recintos[recinto].capacidade
      called == [t EXCEPT !.full = isFull]
  IN /\ t.op = "inserirDinossauroNoRecinto" /\ t.pc = "start"
     /\ IF ~db.exported
        THEN DbStep(db, i, Thrown(called, "TypeError"))
        ELSE DbStep(db, i, [called EXCEPT !.pc = "afterFindById",
                                          !.recinto = recinto])

\* from findById's answer to `await Dinossauro.countDocuments({ recintoId })`
InserirDinossauroNoRecintoAfterFindById(i) ==
  LET t == tasks[i] IN
  /\ t.op = "inserirDinossauroNoRecinto" /\ t.pc = "afterFindById"
  /\ IF t.recinto = 0
     THEN DbStep(db, i, Thrown(t, "RecintoNotFound"))
     ELSE DbStep(db, i,
                 [t EXCEPT !.pc = "afterCountDocuments",
                           !.totalRecinto = countDocuments(db, t.recintoId)])

\* from the count to `await Dinossauro.create({ ...dinoData, recintoId })`
InserirDinossauroNoRecintoAfterCountDocuments(i) ==
  LET t == tasks[i] IN
  /\ t.op = "inserirDinossauroNoRecinto" /\ t.pc = "afterCountDocuments"
  /\ IF t.totalRecinto >= db.recintos[t.recinto].capacidade
     THEN DbStep(db, i, Thrown(t, "CapacityReached"))
     ELSE DbStep([db EXCEPT !.dinossauros =
                    Append(@, DinossauroDoc(t.nome, t.recintoId))],
                 i,
                 [t EXCEPT !.pc = "afterCreate",
                           !.novoDino = Len(db.dinossauros) + 1])

\* return novoDino
InserirDinossauroNoRecintoAfterCreate(i) ==
  LET t == tasks[i] IN
  /\ t.op = "inserirDinossauroNoRecinto" /\ t.pc = "afterCreate"
  /\ DbStep(db, i, [t EXCEPT !.pc = "done"])

NextRecinto ==
  \/ \E i \in DOMAIN tasks : InserirDinossauroNoRecintoStart(i)
  \/ \E i \in DOMAIN tasks : InserirDinossauroNoRecintoAfterFindById(i)
  \/ \E i \in DOMAIN tasks : InserirDinossauroNoRecintoAfterCountDocuments(i)
  \/ \E i \in DOMAIN tasks : InserirDinossauroNoRecintoAfterCreate(i)

SpecRecinto == InitRecinto /\ [][NextRecinto]_vars

(***************************************************************************)
(* Properties                                                              *)
(***************************************************************************)
\* what the repository stores, entry by entry, with the fields of each object
StoredView ==
  [i \in 1..Len(characters) |->
     [key |-> characters[i].key, ref |-> characters[i].ref,
      c |-> heap[characters[i].ref]]]

\* the entries whose character has this name, ignoring case
StoredAs(name) ==
  {i \in 1..Len(characters) : nameEquals(heap[characters[i].ref].name, name)}

\* every entry whose character has another name is still there, unchanged
OthersKept(name) ==
  \A i \in 1..Len(characters) :
     i \notin StoredAs(name) =>
       \E j \in 1..Len(characters') :
          /\ characters'[j] = characters[i]
          /\ heap'[characters'[j].ref] = heap[characters[i].ref]

\* C1: createCharacter for a name that is stored (ignoring case) fails with
\* CharacterAlreadyExistsError whatever class and level are passed, and the
\* stored characters and count() are unchanged.
C1_CreateExistingFails ==
  [][(ret'.op = "createCharacter" /\ StoredAs(trim(ret'.name)) # {})
       => (ret'.err = "CharacterAlreadyExists" /\ StoredView' = StoredView)]_vars

C1_Witness ==
  /\ ret.op = "createCharacter"
  /\ ret.err = "CharacterAlreadyExists"
  /\ ret.name = RexUpper
  /\ ~ClassIsValid(ret.cls)
  /\ \E i \in StoredAs(ret.name) : heap[characters[i].ref].name = Rex

\* C2: in every reachable state no two stored characters have names equal
\* ignoring case, every character is stored under the lower-cased form of
\* its own name, and count() is the number of stored characters.
C2_UniqueNames ==
  /\ \A i, j \in 1..Len(characters) :
        nameEquals(heap[characters[i].ref].name, heap[characters[j].ref].name)
          => i = j
  /\ \A i \in 1..Len(characters) :
        characters[i].key = toLowerCase(heap[characters[i].ref].name)
  /\ repoCount(characters)
       = Cardinality({heap[characters[i].ref].name : i \in 1..Len(characters)})

C2_Witness ==
  /\ ret.op = "save"
  /\ ops = MaxOps
  /\ \E i \in 1..Len(characters) :
        /\ heap[characters[i].ref].name = RexUpper
        /\ characters[i].key = toLowerCase(Rex)

\* C3: save is an upsert by case-insensitive name: a following findByName of
\* the name returns the saved character, count() grows by exactly 1 when no
\* entry with that name existed and stays the same when one existed, and the
\* entries stored under other names are untouched.
C3_SaveUpserts ==
  [][ret'.op = "save"
       => /\ ret'.ref # 0
          /\ heap'[ret'.ref].name = ret'.name
          /\ repoFindByName(characters', ret'.name) = ret'.ref
          /\ \A n \in ValidLookupNames :
                nameEquals(n, ret'.name)
                  => repoFindByName(characters', CharacterName(n)) = ret'.ref
          /\ repoCount(characters')
               = repoCount(characters)
                   + (IF StoredAs(ret'.name) = {} THEN 1 ELSE 0)
          /\ OthersKept(ret'.name)]_vars

C3_Witness ==
  /\ ret.op = "save"
  /\ ret.name = aragornLower
  /\ repoCount(characters) = Len(defaultCharacters)
  /\ heap[repoFindByName(characters, Aragorn)].cls = "Mago"

\* C4: remove(name) returns true exactly when an entry with that name
\* (ignoring case) was stored; then exists(name) is false afterwards and
\* count() is smaller by exactly 1 with all other entries kept; when it
\* returns false the repository is unchanged.
C4_RemoveExact ==
  [][ret'.op = "remove"
       => /\ ret'.flag = (StoredAs(ret'.name) # {})
          /\ ret'.flag
               => /\ ~repoExists(characters', ret'.name)
                  /\ repoCount(characters') = repoCount(characters) - 1
                  /\ OthersKept(ret'.name)
          /\ ~ret'.flag => StoredView' = StoredView]_vars

C4_Witness ==
  /\ ret.op = "remove"
  /\ ret.flag
  /\ ret.name = Gandalf
  /\ repoCount(characters) = Len(defaultCharacters) - 1
  /\ ~repoExists(characters, Gandalf)

NotFoundOps == {"findCharacterByName", "levelUpCharacter", "removeCharacter"}

\* C5: findCharacterByName, levelUpCharacter and removeCharacter for a name
\* that is not stored fail with CharacterNotFoundError and leave the
\* repository as it was; a second removeCharacter of a name right after a
\* successful one fails with CharacterNotFoundError.
C5_NotFound ==
  [][/\ (ret'.op \in NotFoundOps /\ NameIsValid(ret'.name)
           /\ StoredAs(trim(ret'.name)) = {})
          => (ret'.err = "CharacterNotFound" /\ StoredView' = StoredView)
     /\ (ret.op = "removeCharacter" /\ ret.err = "" /\ ret.flag
           /\ ret'.op = "removeCharacter" /\ ret'.name = ret.name)
          => ret'.err = "CharacterNotFound"]_vars

C5_Witness ==
  /\ ret.op = "removeCharacter"
  /\ ret.err = "CharacterNotFound"
  /\ ret.name = Gandalf
  /\ ops = 1
  /\ repoCount(characters) = Len(defaultCharacters) - 1

\* the stored character with this name (ignoring case), 0 when there is none
StoredRef(name) ==
  IF StoredAs(name) = {} THEN 0
  ELSE characters[CHOOSE i \in StoredAs(name) : TRUE].ref

\* C6: levelUpCharacter on a stored character at level 100 fails with
\* InvalidOperationError, the stored level stays 100 and no other stored
\* character changes.
C6_LevelUpAtMaxFails ==
  [][(/\ ret'.op = "levelUpCharacter"
      /\ StoredRef(trim(ret'.name)) # 0
      /\ heap[StoredRef(trim(ret'.name))].level = MaxLevel)
       => /\ ret'.err = "InvalidOperation"
          /\ StoredView' = StoredView
          /\ heap'[StoredRef(trim(ret'.name))].level = MaxLevel]_vars

C6_Witness ==
  /\ ret.op = "levelUpCharacter"
  /\ ret.err = "InvalidOperation"
  /\ ret.name = Gandalf
  /\ StoredRef(Gandalf) # 0
  /\ heap[StoredRef(Gandalf)].level = MaxLevel

\* C7: levelUpCharacter on a stored character at level L < 100 returns that
\* character at level L+1, a following findByName reports level L+1 with the
\* same name and class, and the other stored characters and count() are
\* unchanged; a call that fails leaves the stored characters unchanged.
C7_LevelUpAddsOne ==
  [][ret'.op = "levelUpCharacter"
       => LET r == StoredRef(trim(ret'.name)) IN
          /\ (r # 0 /\ heap[r].level < MaxLevel)
               => /\ ret'.err = ""
                  /\ ret'.ref = r
                  /\ repoFindByName(characters', CharacterName(ret'.name)) = r
                  /\ heap'[r] = [heap[r] EXCEPT !.level = heap[r].level + 1]
                  /\ OthersKept(trim(ret'.name))
                  /\ repoCount(characters') = repoCount(characters)
          /\ ret'.err # "" => StoredView' = StoredView]_vars

C7_Witness ==
  /\ ret.op = "levelUpCharacter"
  /\ ret.err = ""
  /\ ret.name = RexUpper
  /\ heap[ret.ref].name = Rex
  /\ heap[ret.ref].level = MaxLevel
  /\ repoCount(characters) = Len(defaultCharacters) + 1

\* C8: nothing the caller does to a returned array or a returned Character
\* (such as levelUp() without save) changes what later repository reads
\* report.
C8_NoAliasing ==
  [][ret'.op \in CallerOps => StoredView' = StoredView]_vars

\* C9: findBySpecification(spec) returns exactly the elements of findAll()
\* that satisfy spec, in the relative order of findAll().
C9_FilterOfFindAll ==
  (ret.op \in {"findBySpecification", "findCharactersBySpecification"})
    => LET all == repoFindAll(characters)
           Pos(r) == CHOOSE i \in 1..Len(all) : all[i] = r
       IN /\ \A i \in 1..Len(ret.refs) :
                /\ ret.refs[i] \in SeqRange(all)
                /\ isSatisfiedBy(ret.spec, heap[ret.refs[i]])
          /\ \A i \in 1..Len(all) :
                isSatisfiedBy(ret.spec, heap[all[i]])
                  => all[i] \in SeqRange(ret.refs)
          /\ \A i, j \in 1..Len(ret.refs) :
                i < j => Pos(ret.refs[i]) < Pos(ret.refs[j])

C9_Witness ==
  /\ ret.op = "findBySpecification"
  /\ ret.spec = Or(byClass("Guerreiro"), masters)
  /\ Len(ret.refs) = 3
  /\ heap[ret.refs[3]].name = RexUpper
  /\ repoCount(characters) = Len(defaultCharacters)

ReadOps ==
  {"findByName", "findAll", "findByClass", "findByLevelRange",
   "findBySpecification", "exists", "count", "getCharacterStatistics",
   "findCharacterByName", "findCharactersBySpecification"}

\* C10: the read operations leave the stored collection unchanged, and
\* findBySpecification(spec) called twice in a row returns equal sequences.
C10_ReadsChangeNothing ==
  [][/\ ret'.op \in ReadOps => StoredView' = StoredView
     /\ (ret.op = "findBySpecification" /\ ret'.op = "findBySpecification"
           /\ ret'.spec = ret.spec)
          => ret'.refs = ret.refs]_vars

C10_Witness ==
  /\ ret.op = "findBySpecification"
  /\ ret.spec = Not(byClass("Guerreiro"))
  /\ Len(ret.refs) = 2
  /\ ops = MaxOps

\* the answer of the last isSatisfiedBy call is about this character
Asked == heap[ret.ref]

\* C11: And(A, B) is satisfied by x exactly when A and B both are, and
\* Or(A, B) exactly when at least one of them is.
C11_AndOrSemantics ==
  ret.op = "isSatisfiedBy" =>
    /\ ret.spec.kind = "and" =>
         (ret.flag <=> (/\ isSatisfiedBy(ret.spec.kids[1], Asked)
                        /\ isSatisfiedBy(ret.spec.kids[2], Asked)))
    /\ ret.spec.kind = "or" =>
         (ret.flag <=> (\/ isSatisfiedBy(ret.spec.kids[1], Asked)
                        \/ isSatisfiedBy(ret.spec.kids[2], Asked)))

\* an And of two operands that disagree about the character was asked
C11_Witness ==
  /\ ret.op = "isSatisfiedBy"
  /\ ret.spec.kind = "and"
  /\ isSatisfiedBy(ret.spec.kids[1], Asked)
  /\ ~isSatisfiedBy(ret.spec.kids[2], Asked)
  /\ ~ret.flag

C13_CommutativeAssociative ==
  ret.op = "isSatisfiedBy" =>
    LET s == ret.spec
        a == s.kids[1]
        b == s.kids[2]
    IN /\ s.kind = "and" => (ret.flag <=> isSatisfiedBy(And(b, a), Asked))
       /\ s.kind = "or" => (ret.flag <=> isSatisfiedBy(Or(b, a), Asked))
       /\ (s.kind = "and" /\ a.kind = "and") =>
            (ret.flag <=>
               isSatisfiedBy(And(a.kids[1], And(a.kids[2], b)), Asked))
       /\ (s.kind = "or" /\ a.kind = "or") =>
            (ret.flag <=>
               isSatisfiedBy(Or(a.kids[1], Or(a.kids[2], b)), Asked))

\* And(And(A, B), C) was asked with A and B satisfied and C not
C13_Witness ==
  /\ ret.op = "isSatisfiedBy"
  /\ ret.spec.kind = "and"
  /\ ret.spec.kids[1].kind = "and"
  /\ isSatisfiedBy(ret.spec.kids[1], Asked)
  /\ ~isSatisfiedBy(ret.spec.kids[2], Asked)
  /\ ~ret.flag

\* the kind, in the error taxonomy, of what an operation threw: the plain
\* Error of the repository's #validate methods is its validation failure
\* (the error module has no class of its own for that kind)
ErrorKind(err) == IF err = "Error" THEN "ValidationError" ELSE err

RangeOps == {"findByLevelRange", "findCharactersByLevelRange"}

\* C14: findByLevelRange(min, max) with min > max fails with a validation
\* error instead of returning a sequence and leaves the repository
\* unchanged; findCharactersByLevelRange passes the same failure on.
C14_RangeOutOfOrderFails ==
  [][(/\ ret'.op \in RangeOps
      /\ LevelIsValid(ret'.level) /\ LevelIsValid(ret'.maxLevel)
      /\ ret'.level > ret'.maxLevel)
       => /\ ErrorKind(ret'.err) = "ValidationError"
          /\ ret'.err = "Error"
          /\ ret'.refs = <<>>
          /\ StoredView' = StoredView]_vars

\* the service was asked for the range 30..10 on a repository that holds
\* characters, and failed with the repository's error
C14_Witness ==
  /\ ret.op = "findCharactersByLevelRange"
  /\ ret.level = 30 /\ ret.maxLevel = 10
  /\ ret.err = "Error"
  /\ Len(characters) = MaxStored

\* the names, lower-cased, of what findAll() returns, in its order
FindAllNames(m, h) ==
  [i \in 1..Len(repoFindAll(m)) |-> toLowerCase(h[repoFindAll(m)[i]].name)]

\* C15: findAll() returns the stored characters in insertion order: a save
\* under a new name puts the character after all existing ones, a save (or
\* level-up) under a stored name keeps the order, and a remove keeps the
\* order of the remaining characters.
C15_InsertionOrder ==
  [][LET before == FindAllNames(characters, heap)
         after == FindAllNames(characters', heap')
         n == toLowerCase(trim(ret'.name))
         Other(x) == x # n
     IN /\ (ret'.op \in {"save", "createCharacter", "levelUpCharacter"}
             /\ ret'.err = "")
             => after = (IF n \in SeqRange(before) THEN before
                         ELSE Append(before, n))
        /\ ret'.op \in {"remove", "removeCharacter"}
             => after = SelectSeq(before, Other)]_vars

\* a character was saved under the name of the first of several entries,
\* and is still the first
C15_Witness ==
  /\ ret.op = "save"
  /\ nameEquals(ret.name, Aragorn)
  /\ Len(characters) >= Len(defaultCharacters)
  /\ characters[1].ref = ret.ref
  /\ ret.ref > Len(defaultCharacters)

\* C16: on a repository that holds no characters,
\* findCharactersByLevelRange(10, 30) returns an empty sequence and the
\* statistics report total = 0 and averageLevel = 0.
C16_EmptyRepository ==
  repoCount(characters) = 0 =>
    /\ (ret.op = "findCharactersByLevelRange" /\ ret.level = 10
          /\ ret.maxLevel = 30)
         => (ret.err = "" /\ ret.refs = <<>>)
    /\ ret.op = "getCharacterStatistics"
         => (ret.stats.total = 0 /\ ret.stats.averageLevel = 0)

\* the statistics of the empty repository were asked for
C16_Witness ==
  /\ repoCount(characters) = 0
  /\ ret.op = "getCharacterStatistics"
  /\ ret.stats.lowestLevel = LowestLevelStart

\* the names of the characters the last operation returned
ReturnedNames == [i \in 1..Len(ret.refs) |-> heap[ret.refs[i]].name]

Scenario3(nameA, nameB) ==
  <<create(nameA, "Guerreiro", 50), create(nameB, "Mago", 80),
    find(And(byMinimumLevel(60), experienced))>>

Stored == MapValues(characters)

\* C18: findViableOpponents(c) returns exactly the stored characters d for
\* which c.canFight(d) is true, and never c itself.
C18_ViableOpponents ==
  (ret.op \in {"findViableOpponents", "repository.findViableOpponents"}
     /\ ret.err = "")
    => LET own == IF ret.op = "findViableOpponents"
                  THEN repoFindByName(characters, CharacterName(ret.name))
                  ELSE ret.ref
       IN /\ SeqRange(ret.refs) \subseteq SeqRange(Stored)
          /\ \A r \in SeqRange(Stored) :
                r \in SeqRange(ret.refs) <=> canFight(heap[own], heap[r])
          /\ own \notin SeqRange(ret.refs)
          /\ \A r \in SeqRange(ret.refs) :
                ~nameEquals(heap[r].name, heap[own].name)

\* the opponents of one of two stored characters were asked for, and the
\* other one is returned
C18_Witness ==
  /\ ret.op = "findViableOpponents"
  /\ ret.err = ""
  /\ Len(Stored) = MaxStored
  /\ Len(ret.refs) = MaxStored - 1

\* the stored characters whose level is from lo to hi, in iteration order
InBand(lo, hi) ==
  LET Test(r) == heap[r].level >= lo /\ heap[r].level <= hi
  IN SelectSeq(Stored, Test)

\* C19: every level from 1 to 100 is in exactly one band (novice below 20,
\* experienced 20 to 89, master 90 and above); the statistics count each
\* stored character in the band of its level; findExperiencedCharacters
\* and findMasterCharacters return exactly the characters of those bands.
C19_LevelBands ==
  /\ \A l \in 1..100 :
        LET c == Character(Gimli, "Guerreiro", l)
        IN /\ isExperienced(c) <=> (l >= 20 /\ l <= 89)
           /\ isMaster(c) <=> l >= 90
           /\ ~(isExperienced(c) /\ isMaster(c))
  /\ ret.op = "getCharacterStatistics"
       => /\ ret.stats.novice = Len(InBand(1, 19))
          /\ ret.stats.experienced = Len(InBand(20, 89))
          /\ ret.stats.masters = Len(InBand(90, 100))
  /\ ret.op = "findExperiencedCharacters" => ret.refs = InBand(20, 89)
  /\ ret.op = "findMasterCharacters" => ret.refs = InBand(90, 100)

\* the statistics of a repository with a character at level 89 and one at
\* level 90 were asked for
C19_Witness ==
  /\ ret.op = "getCharacterStatistics"
  /\ ret.stats.experienced = 1 /\ ret.stats.masters = 1
  /\ \E r \in SeqRange(Stored) : heap[r].level = 89
  /\ \E r \in SeqRange(Stored) : heap[r].level = 90

RECURSIVE SumOver(_, _)
SumOver(f, S) ==
  IF S = {} THEN 0
  ELSE LET x == CHOOSE y \in S : TRUE IN f[x] + SumOver(f, S \ {x})

\* C20: in the statistics total equals count(), the per-class counts add up
\* to total, the three band counts add up to total, and with at least one
\* character stored highestLevel and lowestLevel are the largest and the
\* smallest stored level.
C20_StatisticsTotals ==
  ret.op = "getCharacterStatistics" =>
    LET st == ret.stats
        levels == {heap[r].level : r \in SeqRange(Stored)}
    IN /\ st.total = repoCount(characters)
       /\ SumOver(st.byClass, DOMAIN st.byClass) = st.total
       /\ st.novice + st.experienced + st.masters = st.total
       /\ repoCount(characters) > 0
            => /\ st.highestLevel \in levels
               /\ \A l \in levels : l <= st.highestLevel
               /\ st.lowestLevel \in levels
               /\ \A l \in levels : l >= st.lowestLevel

\* the statistics of a repository with two characters of one class at
\* different levels, the higher one first, were asked for
C20_Witness ==
  /\ ret.op = "getCharacterStatistics"
  /\ ret.stats.total = MaxStored
  /\ ret.stats.byClass["Mago"] = MaxStored
  /\ ret.stats.highestLevel = heap[Stored[1]].level
  /\ ret.stats.lowestLevel < ret.stats.highestLevel

ServiceOps ==
  {"findCharacterByName", "createCharacter", "removeCharacter",
   "levelUpCharacter", "findCharactersBySpecification",
   "getCharacterStatistics"}

\* the domain error the repository or the aggregate answers a service call
\* with, in the state the call is made in; "" when there is none
DomainErrorOf(op, raw) ==
  IF ~NameIsValid(raw) THEN ""
  ELSE IF op \in {"findCharacterByName", "removeCharacter", "levelUpCharacter"}
          /\ StoredAs(CharacterName(raw)) = {}
  THEN "CharacterNotFound"
  ELSE IF op = "createCharacter" /\ StoredAs(CharacterName(raw)) # {}
  THEN "CharacterAlreadyExists"
  ELSE IF op = "levelUpCharacter"
          /\ \E i \in StoredAs(CharacterName(raw)) :
                heap[characters[i].ref].level = 100
  THEN "InvalidOperation"
  ELSE ""

\* C21: a domain error raised during a service operation reaches the caller
\* as that error; after a failure the service returns no result; and a
\* service operation calls each repository method at most once.
C21_ErrorsPropagate ==
  [][ret'.op \in ServiceOps
       => /\ DomainErrorOf(ret'.op, ret'.name) # ""
               => ret'.err = DomainErrorOf(ret'.op, ret'.name)
          /\ ret'.err # ""
               => (ret'.ref = 0 /\ ret'.refs = <<>> /\ ~ret'.flag)
          /\ \A i, j \in 1..Len(repositoryCalls(ret')) :
                repositoryCalls(ret')[i] = repositoryCalls(ret')[j] => i = j]_vars

\* levelUpCharacter of a stored character at level 100 has failed
C21_Witness ==
  /\ ret.op = "levelUpCharacter"
  /\ ret.err = "InvalidOperation"
  /\ repositoryCalls(ret) = <<"findByName">>
  /\ ret.ref = 0

\* C22: createCharacter with a malformed name, or, for a name that is not
\* stored, with an unknown class or a level outside 1..100, fails with a
\* validation error and stores nothing: count() and every stored entry are
\* as before, and exists(name) is still false.
C22_InvalidCreateStoresNothing ==
  [][(/\ ret'.op = "createCharacter"
      /\ \/ ~NameIsValid(ret'.name)
         \/ /\ StoredAs(CharacterName(ret'.name)) = {}
            /\ ~ClassIsValid(ret'.cls) \/ ~LevelIsValid(ret'.level))
       => /\ ret'.err = "ValidationError"
          /\ ret'.ref = 0
          /\ repoCount(characters') = repoCount(characters)
          /\ StoredView' = StoredView
          /\ NameIsValid(ret'.name)
               => ~repoExists(characters', CharacterName(ret'.name))]_vars

\* a character of a class that does not exist was to be created under a
\* name that is not stored
C22_Witness ==
  /\ ret.op = "createCharacter"
  /\ ret.name = Rex
  /\ ~ClassIsValid(ret.cls)
  /\ LevelIsValid(ret.level)
  /\ ret.err = "ValidationError"
  /\ ~repoExists(characters, Rex)

\* C23: findByLevelRange(min, max) with min <= max returns exactly the
\* stored characters whose level is from min to max, both included, in
\* findAll order.
C23_LevelRangeInclusive ==
  (ret.op \in RangeOps /\ ret.err = "")
    => /\ ret.level <= ret.maxLevel
       /\ ret.refs = InBand(ret.level, ret.maxLevel)

\* the range 20..20 was asked for on a repository with a character at
\* level 20 and one at another level
C23_Witness ==
  /\ ret.op = "findByLevelRange"
  /\ ret.level = 20 /\ ret.maxLevel = 20
  /\ Len(Stored) = MaxStored
  /\ Len(ret.refs) = 1
  /\ heap[ret.refs[1]].level = 20

\* C24: byMinimumLevel(l) is satisfied exactly by the characters of level
\* l or more, and powerfulWarriors() exactly by the characters of class
\* Guerreiro with level 20 or more.
C24_MinimumLevelInclusive ==
  ret.op = "isSatisfiedBy" =>
    /\ ret.spec.kind = "minLevel"
         => (ret.flag <=> Asked.level >= ret.spec.level)
    /\ ret.spec = powerfulWarriors
         => (ret.flag <=> (Asked.cls = "Guerreiro" /\ Asked.level >= 20))

\* byMinimumLevel(90) was asked about a character at level 90
C24_Witness ==
  /\ ret.op = "isSatisfiedBy"
  /\ ret.spec = byMinimumLevel(90)
  /\ Asked.level = 90
  /\ ret.flag

\* C25: And and Or ask their left operand first; A.and(B) does not ask B
\* when A is false, and A.or(B) does not ask B when A is true.
C25_ShortCircuit ==
  (ret.op = "isSatisfiedBy" /\ ret.spec.kind \in {"and", "or"})
    => LET a == ret.spec.kids[1]
           b == ret.spec.kids[2]
           leftOnly == isSatisfiedBy(a, Asked) <=> (ret.spec.kind = "or")
       IN /\ SubSeq(ret.trace, 1, Len(evaluated(a, Asked))) = evaluated(a, Asked)
          /\ leftOnly => ret.trace = evaluated(a, Asked)
          /\ ~leftOnly
               => ret.trace = evaluated(a, Asked) \o evaluated(b, Asked)

\* an And of two leaves was asked about a character that does not satisfy
\* the left one, and only the left one ran
C25_Witness ==
  /\ ret.op = "isSatisfiedBy"
  /\ ret.spec.kind = "and"
  /\ ~isSatisfiedBy(ret.spec.kids[1], Asked)
  /\ isSatisfiedBy(ret.spec.kids[2], Asked)
  /\ ret.trace = <<ret.spec.kids[1]>>

\* every call of the run has returned or thrown
AllDone == \A i \in DOMAIN tasks : tasks[i].pc = "done"

Succeeded(i) == tasks[i].pc = "done" /\ tasks[i].err = ""

\* C26: of two createCharacter calls for the same name (ignoring case)
\* that run interleaved, exactly one succeeds, the other fails with
\* CharacterAlreadyExistsError, and the stored character is the one the
\* successful call created.
C26_OneCreateWins ==
  AllDone =>
    \A i, j \in DOMAIN tasks :
       (/\ i < j
        /\ tasks[i].op = "createCharacter" /\ tasks[j].op = "createCharacter"
        /\ nameEquals(tasks[i].name, tasks[j].name)
        /\ \A k \in DOMAIN asyncCharacters :
              ~nameEquals(asyncCharacters[k].name, tasks[i].name))
         => \E w \in {i, j} :
               LET l == CHOOSE x \in {i, j} : x # w
               IN /\ Succeeded(w)
                  /\ tasks[l].err = "CharacterAlreadyExists"
                  /\ repoFindByName(characters, CharacterName(tasks[w].name))
                       = tasks[w].ref

\* task i took a step
Stepped(i) == tasks'[i] # tasks[i]

\* a removeCharacter call for this name has returned true
RemoveReturned(name) ==
  \E j \in DOMAIN tasks :
     /\ tasks[j].op = "removeCharacter"
     /\ nameEquals(tasks[j].name, name)
     /\ Succeeded(j)

\* C27: once removeCharacter(name) has returned true, exists(name) stays
\* false until a later createCharacter or save of that name, also when a
\* levelUpCharacter call for the name started before the removal: a
\* levelUpCharacter call never brings a removed character back and never
\* overwrites a character created after its own lookup.
C27_RemovedStaysRemoved ==
  [][\A i \in DOMAIN tasks :
        (Stepped(i) /\ tasks[i].op = "levelUpCharacter")
          => LET n == CharacterName(tasks[i].name)
             IN /\ (RemoveReturned(n) /\ ~repoExists(characters, n))
                     => ~repoExists(characters', n)
                /\ ~repoExists(characters, n) => ~repoExists(characters', n)
                /\ repoExists(characters, n)
                     => repoFindByName(characters', n)
                          = repoFindByName(characters, n)]_vars

\* the calls of the run that are about this name and are not level-ups
Disturbs(name) ==
  {i \in DOMAIN tasks :
     tasks[i].op # "levelUpCharacter" /\ nameEquals(tasks[i].name, name)}

\* the levelUpCharacter calls for this name that returned a character
LevelUpsReturned(name) ==
  {i \in DOMAIN tasks :
     /\ tasks[i].op = "levelUpCharacter"
     /\ nameEquals(tasks[i].name, name)
     /\ Succeeded(i)}

\* C28: after any interleaving of levelUpCharacter calls on one stored
\* character, with no remove or create of its name, the stored level is
\* the level before the calls plus the number of calls that returned
\* successfully; and no stored level is ever above 100 or below 1.
C28_LevelUpsAddUp ==
  /\ \A i \in 1..Len(characters) :
        heap[characters[i].ref].level \in 1..100
  /\ AllDone =>
       \A k \in DOMAIN asyncCharacters :
          LET n == asyncCharacters[k].name IN
          Disturbs(n) = {} =>
            /\ repoExists(characters, n)
            /\ heap[repoFindByName(characters, n)].level
                 = asyncCharacters[k].level + Cardinality(LevelUpsReturned(n))

\* three levelUpCharacter calls for a character at level 99 have ended:
\* one returned the character, the others failed at the highest level
C28_Witness ==
  /\ AllDone
  /\ Len(tasks) = 3
  /\ \A i \in DOMAIN tasks : tasks[i].op = "levelUpCharacter"
  /\ Cardinality(LevelUpsReturned(Rex)) = 1
  /\ \E i \in DOMAIN tasks : tasks[i].err = "InvalidOperation"
  /\ heap[repoFindByName(characters, Rex)].level = 100

\* C29: a dinosaur is listed in at most one enclosure; a transfer of a known
\* dinosaur to a known enclosure returns without error and leaves the
\* dinosaur listed in the destination and in no other enclosure, whether or
\* not it was in an enclosure before; a transfer naming an unknown dinosaur
\* or enclosure throws and changes nothing
EnclosuresListing(p, d) ==
  {r \in DOMAIN p.recintos : d \in listarDinossauros(p, r)}

C29_OneEnclosure ==
  /\ \A d \in DOMAIN parque.dinossauros :
       Cardinality(EnclosuresListing(parque, d)) <= 1
  /\ ret.op = "transferirDinossauro" =>
       LET dino == findDinossauro(ret.before, ret.nome)
           destino == findRecinto(ret.before, ret.id)
       IN IF dino = 0 \/ destino = 0
          THEN ret.err # "" /\ parque = ret.before
          ELSE ret.err = "" /\ EnclosuresListing(parque, dino) = {destino}

====
